---- MODULE Spec2Model ----
(***************************************************************************)
(* Model of builder/converter.py: the incremental PNG -> WebP conversion   *)
(* pipeline with its persisted cache (conversion.lock), the per-directory  *)
(* semaphore and the recursive directory walk.                             *)
(*                                                                         *)
(* Paths are sequences of path components; str(path) joins them with "/",  *)
(* which is injective, so a path string is modelled by the sequence.       *)
(* File bytes are small integers; digests and encoder output are injective *)
(* functions of the bytes.                                                 *)
(***************************************************************************)
EXTENDS Integers, Sequences, FiniteSets, TLC

VARIABLES
    tree,               \* the input tree: the set of relative paths of its files
    content,            \* bytes of every *.png source file
    artifact,           \* bytes of every output file (NoFile when absent)
    outdirs,            \* directories that exist under the output root
    lockFile,           \* content of <output>/conversion.lock on disk
    pc,                 \* position of the process (asyncio.run(async_main))
    now,                \* datetime.now(), advancing from run to run
    runsLeft,           \* runs the environment may still start
    conversion_hashes,  \* async_main: the mapping returned by load_lock_file
    dstate,             \* per directory: state of its process_directory call
    new_hashes,         \* per directory: the new_hashes dict of its call
    semaphore,          \* per directory: free permits of the semaphore of its call
    fstate,             \* per source file: state of its process_file call
    input_hash,         \* per source file: local input_hash of process_file
    invoked,            \* source files for which convert_image was called in this run
    encodeErrors,       \* source files whose encode (or output hashing) raised in this run
    ctx,                \* what the disk looked like when this run started
    last,               \* how the previous run ended
    editsLeft,          \* changes the environment may still make to the disk
    rt,                 \* state of the save/load round trip of the cache format
    calls,              \* per caller: its call of load_lock_file or save_lock_file
    unreadable          \* source files that open(file_path, "rb") cannot open

vars == <<tree, content, artifact, outdirs, lockFile, pc, now, runsLeft,
          conversion_hashes, dstate, new_hashes, semaphore, fstate,
          input_hash, invoked, encodeErrors, ctx, last, editsLeft, rt,
          calls, unreadable>>

-----------------------------------------------------------------------------
(* Bounds and program constants *)

MAX_CONCURRENT_OPERATIONS == 5

MaxRuns == 2
MaxVersion == 2
MaxEdits == 1

-----------------------------------------------------------------------------
(* Paths *)

Root == <<>>

Parent(p) == SubSeq(p, 1, Len(p) - 1)

Name(p) == p[Len(p)]

Suffix(n) ==
    CASE n \in {"a.png", "b.png", "c.png", "d.png", "e.png", "f.png"} -> ".png"
      [] OTHER -> ".txt"

Stem(n) ==
    CASE n = "a.png" -> "a"
      [] n = "b.png" -> "b"
      [] n = "c.png" -> "c"
      [] n = "d.png" -> "d"
      [] n = "e.png" -> "e"
      [] n = "f.png" -> "f"
      [] OTHER -> "notes"

WebpName(stem) ==
    CASE stem = "a" -> "a.webp"
      [] stem = "b" -> "b.webp"
      [] stem = "c" -> "c.webp"
      [] stem = "d" -> "d.webp"
      [] stem = "e" -> "e.webp"
      [] stem = "f" -> "f.webp"
      [] OTHER -> "notes.webp"

\* str(relative_path.parent): pathlib renders the empty relative path as "."
FolderStr(d) == IF d = Root THEN <<".">> ELSE d

SmallTree == {<<"a.png">>, <<"b.png">>, <<"notes.txt">>, <<"sub", "a.png">>}

WideTree == {<<"a.png">>, <<"b.png">>, <<"c.png">>,
             <<"sub", "a.png">>, <<"sub", "b.png">>, <<"sub", "c.png">>}

\* directories at three depths, each with a matching file
DeepTree == {<<"a.png">>, <<"sub", "a.png">>, <<"sub", "deep", "a.png">>}

\* one directory with more files than the semaphore has permits
FullTree == {<<"a.png">>, <<"b.png">>, <<"c.png">>,
             <<"d.png">>, <<"e.png">>, <<"f.png">>}

Trees == {SmallTree, WideTree, DeepTree}

Prefixes(p) == {SubSeq(p, 1, n) : n \in 0..Len(p)}

Dirs == UNION {Prefixes(Parent(p)) : p \in tree}

\* input_path.glob("*.png")
Glob(d) == {p \in tree : Parent(p) = d /\ Suffix(Name(p)) = ".png"}

\* input_path.iterdir() filtered by is_dir()
Subdirs(d) == {e \in Dirs : Len(e) = Len(d) + 1 /\ Parent(e) = d}

Pngs == UNION {Glob(d) : d \in Dirs}

\* mutant: every artifact is written into the output root
WebpFile_Flat(p) == <<WebpName(Stem(Name(p)))>>

\* webp_file = output_path / f"{png_file.stem}.webp", relative to the output
\* root; output_path of a subdirectory is output_path / relative_subdir
WebpFile(p) == Parent(p) \o <<WebpName(Stem(Name(p)))>>

-----------------------------------------------------------------------------
(* File bytes, digests, encoder *)

NoFile == 0
PartialBytes == 1

\* mutant: the existence test looks at something that is always there
Exists_Always(b) == TRUE

Exists(b) == b # NoFile

\* _calculate_file_hash: SHA-256 of the bytes (collision free on the model's bytes)
SHA256(b) == b + 100

\* Image.open(input).save(output, "WEBP", **settings): the encoder's output bytes
Encode(b) == b + 10

-----------------------------------------------------------------------------
(* Cache documents *)

EmptyMap == [k \in {} |-> 0]

Absent == [kind |-> "absent"]
Malformed == [kind |-> "malformed"]
Json(data) == [kind |-> "json", data |-> data]

\* file_data.get("folder", "root")
FolderOf(file_data) ==
    IF "folder" \in DOMAIN file_data THEN file_data.folder ELSE <<"root">>

\* save_lock_file: the document organized_hashes; the keys of a JSON object
\* are strings, written like path strings as one-component sequences
OrganizedHashes(hashes, t) ==
    (<<"metadata">> :> [last_update |-> t,
                        total_files |-> Cardinality(DOMAIN hashes),
                        version |-> "1.0"])
    @@
    (<<"files">> :>
        [folder \in {FolderOf(hashes[k]) : k \in DOMAIN hashes} |->
           [k \in {j \in DOMAIN hashes : FolderOf(hashes[j]) = folder} |->
              hashes[k]]])

\* mutant: the flattening keeps the files of one folder only
FlatHashes_OneFolder(data) ==
    IF <<"files">> \in DOMAIN data
    THEN LET files == data[<<"files">>]
         IN IF DOMAIN files = {}
            THEN EmptyMap
            ELSE files[CHOOSE folder \in DOMAIN files : TRUE]
    ELSE data

\* mutant: a document without "files" holds no entries
FlatHashes_FilesRequired(data) ==
    IF <<"files">> \in DOMAIN data
    THEN LET files == data[<<"files">>]
         IN [k \in UNION {DOMAIN files[folder] : folder \in DOMAIN files} |->
               files[CHOOSE folder \in DOMAIN files : k \in DOMAIN files[folder]][k]]
    ELSE EmptyMap

\* load_lock_file on a parsed document: flatten data["files"], or the document itself
FlatHashes(data) ==
    IF <<"files">> \in DOMAIN data
    THEN LET files == data[<<"files">>]
         IN [k \in UNION {DOMAIN files[folder] : folder \in DOMAIN files} |->
               files[CHOOSE folder \in DOMAIN files : k \in DOMAIN files[folder]][k]]
    ELSE data

\* mutant: a malformed file is treated like an absent one
load_lock_file_Conflated(file) ==
    IF file.kind \in {"absent", "malformed"}
    THEN [raised |-> FALSE, value |-> EmptyMap]
    ELSE [raised |-> FALSE, value |-> FlatHashes(file.data)]

\* load_lock_file: an absent file gives the empty mapping, json.load raises on
\* a file that is not a JSON document, a document is flattened
load_lock_file(file) ==
    IF file.kind = "absent" THEN [raised |-> FALSE, value |-> EmptyMap]
    ELSE IF file.kind = "malformed" THEN [raised |-> TRUE, value |-> EmptyMap]
    ELSE [raised |-> FALSE, value |-> FlatHashes(file.data)]

Update(m, k, v) == (k :> v) @@ m

\* mutant: the result of a subdirectory replaces the mapping
Merge_Replace(m1, m2) == m2

\* dict.update: entries of m2 override those of m1
Merge(m1, m2) == m2 @@ m1

RECURSIVE MergeAll(_, _)
MergeAll(m, ds) ==
    IF ds = {} THEN m
    ELSE LET d == CHOOSE e \in ds : TRUE
         IN MergeAll(Merge(m, new_hashes[d]), ds \ {d})

-----------------------------------------------------------------------------
(* Initial state *)

Webps == {WebpFile(p) : p \in Pngs}

\* every place under the output root where a file named <stem>.webp could be
OutputFiles == {d \o <<WebpName(Stem(Name(p)))>> : d \in Dirs, p \in Pngs}

InitWith(t, U, edits) ==
    /\ tree = t
    /\ content = [p \in Pngs |-> 1]
    /\ artifact = [w \in OutputFiles |-> NoFile]
    /\ outdirs = {}
    /\ lockFile = Absent
    /\ pc = "idle"
    /\ now = 0
    /\ runsLeft = IF tree = SmallTree THEN MaxRuns ELSE 1
    /\ conversion_hashes = EmptyMap
    /\ dstate = [d \in Dirs |-> "none"]
    /\ new_hashes = [d \in Dirs |-> EmptyMap]
    /\ semaphore = [d \in Dirs |-> 0]
    /\ fstate = [p \in Pngs |-> "none"]
    /\ input_hash = [p \in Pngs |-> 0]
    /\ invoked = {}
    /\ encodeErrors = {}
    /\ ctx = [started |-> FALSE, afterCompleted |-> FALSE, lock0 |-> Absent,
              artifact0 |-> [w \in OutputFiles |-> NoFile],
              mutated |-> {}, removed |-> {}, prevFailed |-> {}]
    /\ last = [completed |-> FALSE, failed |-> {}, lock |-> Absent,
               content |-> [p \in Pngs |-> 1],
               artifact |-> [w \in OutputFiles |-> NoFile]]
    /\ editsLeft = edits
    /\ rt = [stage |-> "off"]
    /\ calls = <<>>
    /\ unreadable = U

\* a tree of readable files
InitOn(t) == InitWith(t, {}, MaxEdits)

Init == \E t \in Trees : InitOn(t)

-----------------------------------------------------------------------------
(* async_main *)

\* the process is not running: not started, returned, killed, or ended by an
\* exception (asyncio.run returns when the executor's threads have finished)
Stopped ==
    \/ pc \in {"idle", "done", "crashed", "fatal"}
    \/ pc = "error" /\ \A p \in Pngs : fstate[p] # "orphaned"

Terminal == {"Skipped", "Succeeded", "Failed"}

\* asyncio.run(async_main(...)) up to the call of process_directory:
\* mkdir of the output root and load_lock_file
StartRun ==
    /\ Stopped
    /\ runsLeft > 0
    /\ runsLeft' = runsLeft - 1
    /\ now' = now + 1
    /\ outdirs' = outdirs \cup {Root}
    /\ ctx' = [started |-> TRUE,
               afterCompleted |-> last.completed,
               lock0 |-> lockFile,
               artifact0 |-> artifact,
               mutated |-> {p \in Pngs : content[p] # last.content[p]},
               removed |-> {p \in Pngs : artifact[WebpFile(p)] # last.artifact[WebpFile(p)]},
               prevFailed |-> last.failed]
    /\ dstate' = [d \in Dirs |-> "none"]
    /\ new_hashes' = [d \in Dirs |-> EmptyMap]
    /\ semaphore' = [d \in Dirs |-> 0]
    /\ fstate' = [p \in Pngs |-> "none"]
    /\ input_hash' = [p \in Pngs |-> 0]
    /\ invoked' = {}
    /\ encodeErrors' = {}
    /\ LET loaded == load_lock_file(lockFile)
       IN IF loaded.raised
          THEN /\ pc' = "fatal"
               /\ conversion_hashes' = EmptyMap
               /\ last' = [last EXCEPT !.completed = FALSE]
          ELSE /\ pc' = "walk"
               /\ conversion_hashes' = loaded.value
               /\ last' = last
    /\ UNCHANGED <<tree, content, artifact, lockFile, editsLeft, rt,
                   calls, unreadable>>

\* mutant: the new map starts as a copy of the loaded cache
InitialHashes_CarryOver == conversion_hashes

\* process_directory: new_hashes = {}
InitialHashes == EmptyMap

\* process_directory up to asyncio.gather: mkdir, a new semaphore, one task
\* per *.png file and per subdirectory
process_directory(d) ==
    /\ pc = "walk"
    /\ dstate[d] = "none"
    /\ d = Root \/ dstate[Parent(d)] = "running"
    /\ dstate' = [dstate EXCEPT ![d] = "running"]
    /\ outdirs' = outdirs \cup Prefixes(d)
    /\ semaphore' = [semaphore EXCEPT ![d] = MAX_CONCURRENT_OPERATIONS]
    /\ new_hashes' = [new_hashes EXCEPT ![d] = InitialHashes]
    /\ fstate' = [p \in Pngs |-> IF p \in Glob(d) THEN "start" ELSE fstate[p]]
    /\ UNCHANGED <<tree, content, artifact, lockFile, pc, now, runsLeft,
                   conversion_hashes, input_hash, invoked, encodeErrors,
                   ctx, last, editsLeft, rt,
                   calls, unreadable>>

\* mutant: the artifact's existence is not tested
CacheHit_NoExistsCheck(p, hash_key, h) ==
    /\ hash_key \in DOMAIN conversion_hashes
    /\ h = conversion_hashes[hash_key].input_hash

\* mutant: the input hash is compared with the stored output hash
CacheHit_OutputHash(p, hash_key, h) ==
    /\ hash_key \in DOMAIN conversion_hashes
    /\ h = conversion_hashes[hash_key].output_hash
    /\ Exists(artifact[WebpFile(p)])

\* mutant: the input hash is not compared
CacheHit_NoHashCheck(p, hash_key, h) ==
    /\ hash_key \in DOMAIN conversion_hashes
    /\ Exists(artifact[WebpFile(p)])

\* process_file: the condition under which the file is skipped
CacheHit(p, hash_key, h) ==
    /\ hash_key \in DOMAIN conversion_hashes
    /\ h = conversion_hashes[hash_key].input_hash
    /\ Exists(artifact[WebpFile(p)])

\* process_file up to the call of convert_image: hash the source and decide
process_file(p) ==
    /\ pc = "walk"
    /\ fstate[p] = "start"
    /\ p \notin unreadable
    /\ LET hash_key == p
           h == SHA256(content[p])
       IN /\ input_hash' = [input_hash EXCEPT ![p] = h]
          /\ IF CacheHit(p, hash_key, h)
             THEN /\ new_hashes' = [new_hashes EXCEPT ![Parent(p)] =
                                      Update(@, hash_key, conversion_hashes[hash_key])]
                  /\ fstate' = [fstate EXCEPT ![p] = "Skipped"]
                  /\ invoked' = invoked
             ELSE /\ new_hashes' = new_hashes
                  /\ fstate' = [fstate EXCEPT ![p] = "waiting"]
                  /\ invoked' = invoked \cup {p}
    /\ UNCHANGED <<tree, content, artifact, outdirs, lockFile, pc, now, runsLeft,
                   conversion_hashes, dstate, semaphore, encodeErrors,
                   ctx, last, editsLeft, rt,
                   calls, unreadable>>

\* convert_image: "async with semaphore" is entered
convert_image_acquire(p) ==
    /\ pc = "walk"
    /\ fstate[p] = "waiting"
    /\ semaphore[Parent(p)] > 0
    /\ semaphore' = [semaphore EXCEPT ![Parent(p)] = @ - 1]
    /\ fstate' = [fstate EXCEPT ![p] = "encoding"]
    /\ UNCHANGED <<tree, content, artifact, outdirs, lockFile, pc, now, runsLeft,
                   conversion_hashes, dstate, new_hashes, input_hash, invoked,
                   encodeErrors, ctx, last, editsLeft, rt,
                   calls, unreadable>>

\* mutant: the except branch is left without giving the permit back
convert_image_except_NoRelease(p) ==
    /\ pc = "walk"
    /\ fstate[p] = "encoding"
    /\ \E b \in {artifact[WebpFile(p)], PartialBytes} :
          artifact' = [artifact EXCEPT ![WebpFile(p)] = b]
    /\ fstate' = [fstate EXCEPT ![p] = "Failed"]
    /\ encodeErrors' = encodeErrors \cup {p}
    /\ UNCHANGED <<tree, content, outdirs, lockFile, pc, now, runsLeft,
                   conversion_hashes, dstate, new_hashes, semaphore, input_hash,
                   invoked, ctx, last, editsLeft, rt, calls, unreadable>>

\* mutant: the exception of the encoder is not caught and ends the run
convert_image_except_Propagates(p) ==
    /\ pc = "walk"
    /\ fstate[p] = "encoding"
    /\ \E b \in {artifact[WebpFile(p)], PartialBytes} :
          artifact' = [artifact EXCEPT ![WebpFile(p)] = b]
    /\ pc' = "fatal"
    /\ fstate' = [fstate EXCEPT ![p] = "Failed"]
    /\ encodeErrors' = encodeErrors \cup {p}
    /\ UNCHANGED <<tree, content, outdirs, lockFile, now, runsLeft,
                   conversion_hashes, dstate, new_hashes, semaphore, input_hash,
                   invoked, ctx, last, editsLeft, rt,
                   calls, unreadable>>

\* convert_image's except branch and process_file's else branch: the encode or
\* the hashing of the output raised; the permit is released, None is returned,
\* process_file logs and stores nothing.  The encoder fails before it opens
\* the output (the output is as it was) or while writing it (a truncated
\* output is left behind).
convert_image_except(p) ==
    /\ pc = "walk"
    /\ fstate[p] = "encoding"
    /\ \E b \in {artifact[WebpFile(p)], PartialBytes} :
          artifact' = [artifact EXCEPT ![WebpFile(p)] = b]
    /\ semaphore' = [semaphore EXCEPT ![Parent(p)] = @ + 1]
    /\ fstate' = [fstate EXCEPT ![p] = "Failed"]
    /\ encodeErrors' = encodeErrors \cup {p}
    /\ UNCHANGED <<tree, content, outdirs, lockFile, pc, now, runsLeft,
                   conversion_hashes, dstate, new_hashes, input_hash, invoked,
                   ctx, last, editsLeft, rt,
                   calls, unreadable>>

\* convert_image's except branch when the encoder has written the whole
\* output and calculate_file_hash(output_path) raises
convert_image_hash_raises(p) ==
    /\ pc = "walk"
    /\ fstate[p] = "encoding"
    /\ artifact' = [artifact EXCEPT ![WebpFile(p)] = Encode(content[p])]
    /\ semaphore' = [semaphore EXCEPT ![Parent(p)] = @ + 1]
    /\ fstate' = [fstate EXCEPT ![p] = "Failed"]
    /\ encodeErrors' = encodeErrors \cup {p}
    /\ UNCHANGED <<tree, content, outdirs, lockFile, pc, now, runsLeft,
                   conversion_hashes, dstate, new_hashes, input_hash, invoked,
                   ctx, last, editsLeft, rt, calls, unreadable>>

\* mutant: the permit is kept when the conversion has succeeded
convert_image_return_NoRelease(p) ==
    /\ pc = "walk"
    /\ fstate[p] = "encoding"
    /\ artifact' = [artifact EXCEPT ![WebpFile(p)] = Encode(content[p])]
    /\ LET hash_key == p
           output_hash == SHA256(artifact'[WebpFile(p)])
       IN new_hashes' = [new_hashes EXCEPT ![Parent(p)] =
                           Update(@, hash_key,
                                  [input_hash |-> input_hash[p],
                                   output_hash |-> output_hash,
                                   folder |-> FolderStr(Parent(p)),
                                   original_name |-> Name(p),
                                   webp_name |-> Name(WebpFile(p)),
                                   last_conversion |-> now])]
    /\ fstate' = [fstate EXCEPT ![p] = "Succeeded"]
    /\ UNCHANGED <<tree, content, outdirs, lockFile, pc, now, runsLeft,
                   conversion_hashes, dstate, semaphore, input_hash, invoked,
                   encodeErrors, ctx, last, editsLeft, rt, calls, unreadable>>

\* the encoder writes the output, convert_image returns its hash and
\* process_file stores the new entry
convert_image_return(p) ==
    /\ pc = "walk"
    /\ fstate[p] = "encoding"
    /\ artifact' = [artifact EXCEPT ![WebpFile(p)] = Encode(content[p])]
    /\ LET hash_key == p
           output_hash == SHA256(artifact'[WebpFile(p)])
       IN new_hashes' = [new_hashes EXCEPT ![Parent(p)] =
                           Update(@, hash_key,
                                  [input_hash |-> input_hash[p],
                                   output_hash |-> output_hash,
                                   folder |-> FolderStr(Parent(p)),
                                   original_name |-> Name(p),
                                   webp_name |-> Name(WebpFile(p)),
                                   last_conversion |-> now])]
    /\ semaphore' = [semaphore EXCEPT ![Parent(p)] = @ + 1]
    /\ fstate' = [fstate EXCEPT ![p] = "Succeeded"]
    /\ UNCHANGED <<tree, content, outdirs, lockFile, pc, now, runsLeft,
                   conversion_hashes, dstate, input_hash, invoked, encodeErrors,
                   ctx, last, editsLeft, rt,
                   calls, unreadable>>

\* process_directory after asyncio.gather: merge the subdirectories' results
process_directory_return(d) ==
    /\ pc = "walk"
    /\ dstate[d] = "running"
    /\ \A p \in Glob(d) : fstate[p] \in Terminal
    /\ \A e \in Subdirs(d) : dstate[e] = "returned"
    /\ new_hashes' = [new_hashes EXCEPT ![d] = MergeAll(@, Subdirs(d))]
    /\ dstate' = [dstate EXCEPT ![d] = "returned"]
    /\ UNCHANGED <<tree, content, artifact, outdirs, lockFile, pc, now, runsLeft,
                   conversion_hashes, semaphore, fstate, input_hash, invoked,
                   encodeErrors, ctx, last, editsLeft, rt,
                   calls, unreadable>>

\* save_lock_file: open(lock_file, "w") truncates the file
save_lock_file_open ==
    /\ pc = "walk"
    /\ dstate[Root] = "returned"
    /\ lockFile' = Malformed
    /\ pc' = "saving"
    /\ UNCHANGED <<tree, content, artifact, outdirs, now, runsLeft,
                   conversion_hashes, dstate, new_hashes, semaphore, fstate,
                   input_hash, invoked, encodeErrors, ctx, last, editsLeft, rt,
                   calls, unreadable>>

\* mutant: the save updates the entries of the old document with the new map
save_lock_file_dump_Update ==
    /\ pc = "saving"
    /\ lockFile' = Json(OrganizedHashes(Merge(conversion_hashes, new_hashes[Root]), now))
    /\ pc' = "done"
    /\ last' = [completed |-> TRUE,
                failed |-> {p \in Pngs : fstate[p] = "Failed"},
                lock |-> lockFile',
                content |-> content,
                artifact |-> artifact]
    /\ UNCHANGED <<tree, content, artifact, outdirs, now, runsLeft,
                   conversion_hashes, dstate, new_hashes, semaphore, fstate,
                   input_hash, invoked, encodeErrors, ctx, editsLeft, rt,
                   calls, unreadable>>

\* save_lock_file: json.dump has written the whole document; async_main returns
save_lock_file_dump ==
    /\ pc = "saving"
    /\ lockFile' = Json(OrganizedHashes(new_hashes[Root], now))
    /\ pc' = "done"
    /\ last' = [completed |-> TRUE,
                failed |-> {p \in Pngs : fstate[p] = "Failed"},
                lock |-> lockFile',
                content |-> content,
                artifact |-> artifact]
    /\ UNCHANGED <<tree, content, artifact, outdirs, now, runsLeft,
                   conversion_hashes, dstate, new_hashes, semaphore, fstate,
                   input_hash, invoked, encodeErrors, ctx, editsLeft, rt,
                   calls, unreadable>>

-----------------------------------------------------------------------------
(* An exception that is not caught: hashing the source file raises *)

\* mutant: the error of the hashing is caught and the file counts as Failed
process_file_raises_Caught(p) ==
    /\ pc = "walk"
    /\ fstate[p] = "start"
    /\ p \in unreadable
    /\ fstate' = [fstate EXCEPT ![p] = "Failed"]
    /\ UNCHANGED <<tree, content, artifact, outdirs, lockFile, pc, now, runsLeft,
                   conversion_hashes, dstate, new_hashes, semaphore, input_hash,
                   invoked, encodeErrors, ctx, last, editsLeft, rt,
                   calls, unreadable>>

\* process_file: calculate_file_hash(png_file) raises (open fails), outside
\* any try block; the task of the file ends with the exception
process_file_raises(p) ==
    /\ pc = "walk"
    /\ fstate[p] = "start"
    /\ p \in unreadable
    /\ fstate' = [fstate EXCEPT ![p] = "Raised"]
    /\ UNCHANGED <<tree, content, artifact, outdirs, lockFile, pc, now, runsLeft,
                   conversion_hashes, dstate, new_hashes, semaphore, input_hash,
                   invoked, encodeErrors, ctx, last, editsLeft, rt,
                   calls, unreadable>>

\* asyncio.gather(*tasks) without return_exceptions: the first exception of a
\* child is raised in the awaiting process_directory at once
GatherRaises(d) ==
    \/ \E p \in Glob(d) : fstate[p] = "Raised"
    \/ \E e \in Subdirs(d) : dstate[e] = "raised"

\* process_directory: "await asyncio.gather" raises, and so does the call
process_directory_raises(d) ==
    /\ pc = "walk"
    /\ dstate[d] = "running"
    /\ GatherRaises(d)
    /\ dstate' = [dstate EXCEPT ![d] = "raised"]
    /\ UNCHANGED <<tree, content, artifact, outdirs, lockFile, pc, now, runsLeft,
                   conversion_hashes, new_hashes, semaphore, fstate, input_hash,
                   invoked, encodeErrors, ctx, last, editsLeft, rt,
                   calls, unreadable>>

\* async_main: "await process_directory" raises, save_lock_file is not reached;
\* asyncio.run cancels the tasks that are left: a task that hashes or waits
\* for a permit ends, a task inside "async with semaphore" leaves it
\* (CancelledError is not an Exception) while the executor's thread goes on
\* encoding
async_main_raises ==
    /\ pc = "walk"
    /\ dstate[Root] = "raised"
    /\ pc' = "error"
    /\ fstate' = [p \in Pngs |->
                    CASE fstate[p] \in {"start", "waiting"} -> "Cancelled"
                      [] fstate[p] = "encoding" -> "orphaned"
                      [] OTHER -> fstate[p]]
    /\ semaphore' = [d \in Dirs |->
                       semaphore[d] +
                       Cardinality({p \in Glob(d) : fstate[p] = "encoding"})]
    /\ dstate' = [d \in Dirs |->
                    IF dstate[d] = "running" THEN "cancelled" ELSE dstate[d]]
    /\ last' = [last EXCEPT !.completed = FALSE]
    /\ UNCHANGED <<tree, content, artifact, outdirs, lockFile, now, runsLeft,
                   conversion_hashes, new_hashes, input_hash, invoked,
                   encodeErrors, ctx, editsLeft, rt, calls, unreadable>>

\* the executor's thread of a cancelled convert_image finishes its
\* Image.open(...).save(...): the output is written, truncated or untouched
executor_finish(p) ==
    /\ pc = "error"
    /\ fstate[p] = "orphaned"
    /\ \E b \in {artifact[WebpFile(p)], PartialBytes, Encode(content[p])} :
          artifact' = [artifact EXCEPT ![WebpFile(p)] = b]
    /\ fstate' = [fstate EXCEPT ![p] = "Cancelled"]
    /\ UNCHANGED <<tree, content, outdirs, lockFile, pc, now, runsLeft,
                   conversion_hashes, dstate, new_hashes, semaphore, input_hash,
                   invoked, encodeErrors, ctx, last, editsLeft, rt,
                   calls, unreadable>>

-----------------------------------------------------------------------------
(* Environment *)

\* the process is killed while save_lock_file writes the lock file
Crash ==
    /\ pc = "saving"
    /\ pc' = "crashed"
    /\ last' = [last EXCEPT !.completed = FALSE]
    /\ UNCHANGED <<tree, content, artifact, outdirs, lockFile, now, runsLeft,
                   conversion_hashes, dstate, new_hashes, semaphore, fstate,
                   input_hash, invoked, encodeErrors, ctx, editsLeft, rt,
                   calls, unreadable>>

\* between two runs (the process has exited) the bytes of a source file are changed
MutateFile(p) ==
    /\ Stopped
    /\ ctx.started
    /\ pc' = "idle"
    /\ runsLeft > 0
    /\ editsLeft > 0
    /\ editsLeft' = editsLeft - 1
    /\ \E b \in (1..MaxVersion) \ {content[p]} :
          content' = [content EXCEPT ![p] = b]
    /\ UNCHANGED <<tree, artifact, outdirs, lockFile, now, runsLeft,
                   conversion_hashes, dstate, new_hashes, semaphore, fstate,
                   input_hash, invoked, encodeErrors, ctx, last, rt,
                   calls, unreadable>>

\* between two runs an output artifact is deleted
DeleteArtifact(p) ==
    /\ Stopped
    /\ ctx.started
    /\ pc' = "idle"
    /\ runsLeft > 0
    /\ editsLeft > 0
    /\ editsLeft' = editsLeft - 1
    /\ Exists(artifact[WebpFile(p)])
    /\ artifact' = [artifact EXCEPT ![WebpFile(p)] = NoFile]
    /\ UNCHANGED <<tree, content, outdirs, lockFile, now, runsLeft,
                   conversion_hashes, dstate, new_hashes, semaphore, fstate,
                   input_hash, invoked, encodeErrors, ctx, last, rt,
                   calls, unreadable>>

\* between two runs a source file is made unreadable (its permissions change)
Chmod(p) ==
    /\ Stopped
    /\ pc' = "idle"
    /\ runsLeft > 0
    /\ editsLeft > 0
    /\ editsLeft' = editsLeft - 1
    /\ p \notin unreadable
    /\ unreadable' = unreadable \cup {p}
    /\ UNCHANGED <<tree, content, artifact, outdirs, lockFile, now, runsLeft,
                   conversion_hashes, dstate, new_hashes, semaphore, fstate,
                   input_hash, invoked, encodeErrors, ctx, last, rt, calls>>

\* between two runs a source file is removed from the input tree
RemoveSource(p) ==
    /\ Stopped
    /\ ctx.started
    /\ pc' = "idle"
    /\ runsLeft > 0
    /\ editsLeft > 0
    /\ editsLeft' = editsLeft - 1
    /\ tree' = tree \ {p}
    /\ UNCHANGED <<content, artifact, outdirs, lockFile, now, runsLeft,
                   conversion_hashes, dstate, new_hashes, semaphore, fstate,
                   input_hash, invoked, encodeErrors, ctx, last, rt, calls,
                   unreadable>>

-----------------------------------------------------------------------------

Next ==
    \/ StartRun
    \/ \E d \in Dirs : process_directory(d)
    \/ \E p \in Pngs : process_file(p)
    \/ \E p \in Pngs : convert_image_acquire(p)
    \/ \E p \in Pngs : convert_image_except(p)
    \/ \E p \in Pngs : convert_image_return(p)
    \/ \E d \in Dirs : process_directory_return(d)
    \/ save_lock_file_open
    \/ save_lock_file_dump
    \/ Crash
    \/ \E p \in Pngs : MutateFile(p)
    \/ \E p \in Pngs : DeleteArtifact(p)

Spec == Init /\ [][Next]_vars

\* the pipeline over a tree in which source files become unreadable or are
\* removed between the runs
NextFault ==
    \/ StartRun
    \/ \E d \in Dirs : process_directory(d)
    \/ \E p \in Pngs : process_file(p)
    \/ \E p \in Pngs : process_file_raises(p)
    \/ \E p \in Pngs : convert_image_acquire(p)
    \/ \E p \in Pngs : convert_image_except(p)
    \/ \E p \in Pngs : convert_image_hash_raises(p)
    \/ \E p \in Pngs : convert_image_return(p)
    \/ \E d \in Dirs : process_directory_return(d)
    \/ \E d \in Dirs : process_directory_raises(d)
    \/ async_main_raises
    \/ \E p \in Pngs : executor_finish(p)
    \/ save_lock_file_open
    \/ save_lock_file_dump
    \/ \E p \in Pngs : Chmod(p)
    \/ \E p \in Pngs : RemoveSource(p)

InitFault == InitOn(SmallTree)

SpecFault == InitFault /\ [][NextFault]_vars

\* one run over a directory with more files than permits
InitPermits == InitOn(FullTree)

NextPermits ==
    \/ StartRun
    \/ \E d \in Dirs : process_directory(d)
    \/ \E p \in Pngs : process_file(p)
    \/ \E p \in Pngs : convert_image_acquire(p)
    \/ \E p \in Pngs : convert_image_except(p)
    \/ \E p \in Pngs : convert_image_hash_raises(p)
    \/ \E p \in Pngs : convert_image_return(p)
    \/ \E d \in Dirs : process_directory_return(d)
    \/ save_lock_file_open
    \/ save_lock_file_dump

SpecPermits == InitPermits /\ [][NextPermits]_vars

\* runs under fair scheduling: the event loop runs every task that is ready
\* and the executor finishes every job; the files that cannot be read are
\* given with the tree
InitFair ==
    \/ InitWith(FullTree, {}, 0)
    \/ \E U \in {{}} \cup {{p} : p \in {q \in SmallTree : Suffix(Name(q)) = ".png"}} :
          InitWith(SmallTree, U, 0)

\* a step of the program, with every outcome of hashing and encoding
FairStep ==
    \/ \E d \in Dirs : process_directory(d)
    \/ \E p \in Pngs : process_file(p)
    \/ \E p \in Pngs : process_file_raises(p)
    \/ \E p \in Pngs : convert_image_acquire(p)
    \/ \E p \in Pngs : convert_image_except(p)
    \/ \E p \in Pngs : convert_image_hash_raises(p)
    \/ \E p \in Pngs : convert_image_return(p)
    \/ \E d \in Dirs : process_directory_return(d)
    \/ \E d \in Dirs : process_directory_raises(d)
    \/ async_main_raises
    \/ \E p \in Pngs : executor_finish(p)
    \/ save_lock_file_open
    \/ save_lock_file_dump

NextFair ==
    \/ StartRun
    \/ \E d \in Dirs : process_directory(d)
    \/ \E p \in Pngs : process_file(p)
    \/ \E p \in Pngs : process_file_raises(p)
    \/ \E p \in Pngs : convert_image_acquire(p)
    \/ \E p \in Pngs : convert_image_except(p)
    \/ \E p \in Pngs : convert_image_hash_raises(p)
    \/ \E p \in Pngs : convert_image_return(p)
    \/ \E d \in Dirs : process_directory_return(d)
    \/ \E d \in Dirs : process_directory_raises(d)
    \/ async_main_raises
    \/ \E p \in Pngs : executor_finish(p)
    \/ save_lock_file_open
    \/ save_lock_file_dump

FairSpec == InitFair /\ [][NextFair]_vars /\ WF_vars(FairStep)

TypeOK ==
    /\ pc \in {"idle", "walk", "saving", "done", "crashed", "fatal", "error"}
    /\ \A d \in Dirs : semaphore[d] \in 0..MAX_CONCURRENT_OPERATIONS

-----------------------------------------------------------------------------
(* Round trip of the cache format: save_lock_file, load_lock_file and        *)
(* save_lock_file again, applied to a mapping M of cache entries            *)

RTKeys == {<<"a.png">>, <<"b.png">>, <<"sub", "a.png">>}

\* the entries a mapping may hold under key k: one written by process_file,
\* one whose folder is "root", one of a legacy file without a folder field
RTEntries(k) ==
    {[input_hash |-> SHA256(1), output_hash |-> SHA256(Encode(1)),
      folder |-> FolderStr(Parent(k)), original_name |-> Name(k),
      webp_name |-> Name(WebpFile(k)), last_conversion |-> 1],
     [input_hash |-> SHA256(2), output_hash |-> SHA256(Encode(2)),
      folder |-> <<"root">>, original_name |-> Name(k),
      webp_name |-> Name(WebpFile(k)), last_conversion |-> 1],
     [input_hash |-> SHA256(1), output_hash |-> SHA256(Encode(1))]}

RTMappings == UNION {[K -> UNION {RTEntries(k) : k \in K}] : K \in SUBSET RTKeys}

InitRT ==
    /\ tree = SmallTree
    /\ content = [p \in Pngs |-> 1]
    /\ artifact = [w \in OutputFiles |-> NoFile]
    /\ outdirs = {}
    /\ lockFile = Absent
    /\ pc = "idle"
    /\ now = 1
    /\ runsLeft = 0
    /\ conversion_hashes = EmptyMap
    /\ dstate = [d \in Dirs |-> "none"]
    /\ new_hashes = [d \in Dirs |-> EmptyMap]
    /\ semaphore = [d \in Dirs |-> 0]
    /\ fstate = [p \in Pngs |-> "none"]
    /\ input_hash = [p \in Pngs |-> 0]
    /\ invoked = {}
    /\ encodeErrors = {}
    /\ ctx = [started |-> FALSE, afterCompleted |-> FALSE, lock0 |-> Absent,
              artifact0 |-> [w \in OutputFiles |-> NoFile],
              mutated |-> {}, removed |-> {}, prevFailed |-> {}]
    /\ last = [completed |-> FALSE, failed |-> {}, lock |-> Absent,
               content |-> [p \in Pngs |-> 1],
               artifact |-> [w \in OutputFiles |-> NoFile]]
    /\ editsLeft = 0
    /\ \E M \in RTMappings : rt = [stage |-> "init", M |-> M, doc1 |-> Absent]
    /\ calls = <<>>
    /\ unreadable = {}

\* save_lock_file(lock_file, M)
RTSave ==
    /\ rt.stage = "init"
    /\ lockFile' = Json(OrganizedHashes(rt.M, now))
    /\ rt' = [rt EXCEPT !.stage = "saved"]
    /\ UNCHANGED <<tree, content, artifact, outdirs, pc, now, runsLeft,
                   conversion_hashes, dstate, new_hashes, semaphore, fstate,
                   input_hash, invoked, encodeErrors, ctx, last, editsLeft,
                   calls, unreadable>>

\* load_lock_file(lock_file), at a later time
RTLoad ==
    /\ rt.stage = "saved"
    /\ ~load_lock_file(lockFile).raised
    /\ conversion_hashes' = load_lock_file(lockFile).value
    /\ now' = now + 1
    /\ rt' = [rt EXCEPT !.stage = "loaded"]
    /\ UNCHANGED <<tree, content, artifact, outdirs, lockFile, pc, runsLeft,
                   dstate, new_hashes, semaphore, fstate, input_hash, invoked,
                   encodeErrors, ctx, last, editsLeft,
                   calls, unreadable>>

\* save_lock_file(lock_file, <the loaded mapping>)
RTResave ==
    /\ rt.stage = "loaded"
    /\ lockFile' = Json(OrganizedHashes(conversion_hashes, now))
    /\ rt' = [rt EXCEPT !.stage = "resaved", !.doc1 = lockFile]
    /\ UNCHANGED <<tree, content, artifact, outdirs, pc, now, runsLeft,
                   conversion_hashes, dstate, new_hashes, semaphore, fstate,
                   input_hash, invoked, encodeErrors, ctx, last, editsLeft,
                   calls, unreadable>>

NextRT == RTSave \/ RTLoad \/ RTResave

SpecRT == InitRT /\ [][NextRT]_vars

-----------------------------------------------------------------------------
(* Concurrent calls of load_lock_file and save_lock_file on one lock file:   *)
(* callers that run at the same time in one process (event loops in two      *)
(* threads), each call going through "async with asyncio.Lock()"             *)

Callers == 1..2

MaxCalls == 2

\* the mappings a caller saves
LockMappings ==
    {EmptyMap,
     (<<"a.png">> :> [input_hash |-> SHA256(1), output_hash |-> SHA256(Encode(1)),
                      folder |-> FolderStr(Root), original_name |-> "a.png",
                      webp_name |-> "a.webp", last_conversion |-> 1])}

\* no run of the pipeline is going on
NoRun ==
    /\ tree = SmallTree
    /\ content = [p \in Pngs |-> 1]
    /\ artifact = [w \in OutputFiles |-> NoFile]
    /\ outdirs = {Root}
    /\ pc = "idle"
    /\ now = 1
    /\ runsLeft = 0
    /\ conversion_hashes = EmptyMap
    /\ dstate = [d \in Dirs |-> "none"]
    /\ new_hashes = [d \in Dirs |-> EmptyMap]
    /\ semaphore = [d \in Dirs |-> 0]
    /\ fstate = [p \in Pngs |-> "none"]
    /\ input_hash = [p \in Pngs |-> 0]
    /\ invoked = {}
    /\ encodeErrors = {}
    /\ ctx = [started |-> FALSE, afterCompleted |-> FALSE, lock0 |-> Absent,
              artifact0 |-> [w \in OutputFiles |-> NoFile],
              mutated |-> {}, removed |-> {}, prevFailed |-> {}]
    /\ last = [completed |-> FALSE, failed |-> {}, lock |-> Absent,
               content |-> [p \in Pngs |-> 1],
               artifact |-> [w \in OutputFiles |-> NoFile]]
    /\ editsLeft = 0
    /\ unreadable = {}

InitLock ==
    /\ NoRun
    /\ rt = [stage |-> "off"]
    /\ lockFile \in {Absent} \cup {Json(OrganizedHashes(M, 0)) : M \in LockMappings}
    /\ calls = [c \in Callers |->
                  [op |-> "none", step |-> "idle", lock |-> <<c, 0>>, n |-> 0,
                   hashes |-> EmptyMap, result |-> [raised |-> FALSE, value |-> EmptyMap]]]

\* between __aenter__ and __aexit__ of its "async with asyncio.Lock()"
InCritical(c) == calls[c].step \in {"entered", "opened"}

\* asyncio.Lock.acquire: the lock object is not held
Free(lock) == \A o \in Callers : InCritical(o) => calls[o].lock # lock

OtherVars ==
    <<tree, content, artifact, outdirs, pc, now, runsLeft, conversion_hashes,
      dstate, new_hashes, semaphore, fstate, input_hash, invoked, encodeErrors,
      ctx, last, editsLeft, rt, unreadable>>

\* load_lock_file up to the open: the existence test, then a new asyncio.Lock()
\* is made and entered
load_lock_file_enter(c) ==
    /\ calls[c].step = "idle"
    /\ calls[c].n < MaxCalls
    /\ IF lockFile.kind = "absent"
       THEN calls' = [calls EXCEPT ![c].op = "load", ![c].n = @ + 1,
                                   ![c].result = [raised |-> FALSE, value |-> EmptyMap]]
       ELSE /\ Free(<<c, calls[c].n + 1>>)
            /\ calls' = [calls EXCEPT ![c].op = "load", ![c].n = @ + 1,
                                      ![c].lock = <<c, calls[c].n + 1>>,
                                      ![c].step = "entered"]
    /\ UNCHANGED lockFile
    /\ UNCHANGED OtherVars

\* save_lock_file up to the open: the document is built, then a new
\* asyncio.Lock() is made and entered
save_lock_file_enter(c, hashes) ==
    /\ calls[c].step = "idle"
    /\ calls[c].n < MaxCalls
    /\ Free(<<c, calls[c].n + 1>>)
    /\ calls' = [calls EXCEPT ![c].op = "save", ![c].n = @ + 1,
                              ![c].lock = <<c, calls[c].n + 1>>,
                              ![c].hashes = hashes,
                              ![c].step = "entered"]
    /\ UNCHANGED lockFile
    /\ UNCHANGED OtherVars

\* open(lock_file, "r") or open(lock_file, "w"); the latter truncates the file
lock_file_open(c) ==
    /\ calls[c].step = "entered"
    /\ calls' = [calls EXCEPT ![c].step = "opened"]
    /\ lockFile' = IF calls[c].op = "save" THEN Malformed ELSE lockFile
    /\ UNCHANGED OtherVars

\* json.load or json.dump on the open file, then the lock is left
lock_file_io(c) ==
    /\ calls[c].step = "opened"
    /\ IF calls[c].op = "save"
       THEN /\ lockFile' = Json(OrganizedHashes(calls[c].hashes, now))
            /\ calls' = [calls EXCEPT ![c].step = "idle"]
       ELSE /\ lockFile' = lockFile
            /\ calls' = [calls EXCEPT ![c].step = "idle",
                                      ![c].result = load_lock_file(lockFile)]
    /\ UNCHANGED OtherVars

NextLock ==
    \/ \E c \in Callers : load_lock_file_enter(c)
    \/ \E c \in Callers : \E hashes \in LockMappings : save_lock_file_enter(c, hashes)
    \/ \E c \in Callers : lock_file_open(c)
    \/ \E c \in Callers : lock_file_io(c)

SpecLock == InitLock /\ [][NextLock]_vars

-----------------------------------------------------------------------------
(* load_lock_file applied to the documents a lock file may hold *)

\* a document as save_lock_file writes it, a flat document without "files",
\* and a document that has "files" and no "metadata"
ShimDocuments ==
    UNION {{OrganizedHashes(M, 1),
            M,
            [k \in {<<"files">>} |-> OrganizedHashes(M, 1)[k]]} : M \in RTMappings}

InitShim ==
    /\ NoRun
    /\ calls = <<>>
    /\ \E data \in ShimDocuments : lockFile = Json(data)
    /\ rt = [stage |-> "stored", raised |-> FALSE]

\* conversion_hashes = await load_lock_file(lock_file)
ShimLoad ==
    /\ rt.stage = "stored"
    /\ conversion_hashes' = load_lock_file(lockFile).value
    /\ rt' = [stage |-> "loaded", raised |-> load_lock_file(lockFile).raised]
    /\ UNCHANGED <<tree, content, artifact, outdirs, lockFile, pc, now, runsLeft,
                   dstate, new_hashes, semaphore, fstate, input_hash, invoked,
                   encodeErrors, ctx, last, editsLeft, calls, unreadable>>

NextShim == ShimLoad

SpecShim == InitShim /\ [][NextShim]_vars

-----------------------------------------------------------------------------
(* Properties *)

Running == pc \in {"walk", "saving", "done"}

Encoding == {p \in Pngs : fstate[p] = "encoding"}

\* the keys of the cache that a load of the lock file on disk returns
SavedKeys == DOMAIN load_lock_file(lockFile).value

\* C1: at every instant at most MAX_CONCURRENT_OPERATIONS encode operations
\* hold a permit, counted over all directories of the tree together.
C1_ConcurrencyBound ==
    Cardinality(Encoding) <= MAX_CONCURRENT_OPERATIONS

\* the condition of the data model under which a cache entry is reusable
Valid(p) ==
    /\ p \in DOMAIN conversion_hashes
    /\ conversion_hashes[p].input_hash = SHA256(content[p])
    /\ Exists(artifact[WebpFile(p)])

\* C2: when process_file decides about a file, the file ends Skipped (no
\* convert_image call, the old entry put unchanged under the same key of the
\* new map) if and only if the loaded cache has an entry under its relative
\* path whose input_hash is the hash of the source and the artifact exists;
\* otherwise convert_image is called.
C2_SkippedIffValid ==
    [][\A p \in Pngs :
         (pc = "walk" /\ fstate[p] = "start" /\ fstate'[p] # "start") =>
            IF Valid(p)
            THEN /\ fstate'[p] = "Skipped"
                 /\ p \notin invoked'
                 /\ p \in DOMAIN new_hashes'[Parent(p)]
                 /\ new_hashes'[Parent(p)][p] = conversion_hashes[p]
            ELSE /\ fstate'[p] = "waiting"
                 /\ p \in invoked'
                 /\ p \notin DOMAIN new_hashes'[Parent(p)]]_vars

\* a run in which one file was skipped, one was reconverted although the cache
\* has an entry for it, and both have finished
C2_Witness ==
    /\ pc = "walk"
    /\ \E p \in Pngs : fstate[p] = "Skipped" /\ p \notin invoked
    /\ \E q \in Pngs : /\ q \in DOMAIN conversion_hashes
                       /\ q \in invoked
                       /\ fstate[q] = "Succeeded"

\* this run follows a run that reached its save, and the input tree and the
\* output tree were not touched in between
Unchanged == ctx.started /\ ctx.afterCompleted /\ ctx.mutated = {} /\ ctx.removed = {}

FilesOf(file) == file.data[<<"files">>]

MetadataOf(file) == file.data[<<"metadata">>]

\* C3 as stated: the second of two runs in succession on an unchanged tree
\* calls no encode and saves a cache with the same keys and entries.
C3_Idempotent ==
    (Running /\ Unchanged) =>
        /\ invoked = {}
        /\ pc = "done" => FilesOf(lockFile) = FilesOf(ctx.lock0)

\* C3 amended: the same, when no file of the first run ended Failed.
C3_IdempotentAfterCleanRun ==
    (Running /\ Unchanged /\ ctx.prevFailed = {}) =>
        /\ invoked = {}
        /\ pc = "done" =>
              /\ FilesOf(lockFile) = FilesOf(ctx.lock0)
              /\ SavedKeys = Pngs
              /\ MetadataOf(lockFile).total_files =
                    MetadataOf(ctx.lock0).total_files
              /\ MetadataOf(lockFile).last_update #
                    MetadataOf(ctx.lock0).last_update

C3_Witness ==
    /\ pc = "done"
    /\ Unchanged
    /\ ctx.prevFailed = {}
    /\ SavedKeys = Pngs
    /\ \A p \in Pngs : fstate[p] = "Skipped"

\* what C4 says of a run: encode is called for the changed files only, every
\* other file is skipped with its entry and its artifact as they were
OnlyChangedReconverted ==
    /\ invoked \subseteq ctx.mutated
    /\ \A q \in Pngs \ ctx.mutated :
          /\ artifact[WebpFile(q)] = ctx.artifact0[WebpFile(q)]
          /\ fstate[q] \in Terminal =>
                /\ fstate[q] = "Skipped"
                /\ new_hashes[Parent(q)][q] = conversion_hashes[q]
    /\ pc \in {"saving", "done"} => invoked = ctx.mutated
    /\ pc = "done" =>
          \A q \in Pngs \ ctx.mutated :
             /\ q \in SavedKeys
             /\ load_lock_file(lockFile).value[q] = conversion_hashes[q]

ExactlyOneChanged ==
    /\ ctx.started
    /\ ctx.afterCompleted
    /\ Cardinality(ctx.mutated) = 1
    /\ ctx.removed = {}

\* C4 as stated: after the bytes of exactly one file were changed between two
\* runs, the second run calls encode for exactly that file.
C4_ChangeDetection ==
    (Running /\ ExactlyOneChanged) => OnlyChangedReconverted

\* C4 amended: the same, when no file of the first run ended Failed.
C4_ChangeDetectionAfterCleanRun ==
    (Running /\ ExactlyOneChanged /\ ctx.prevFailed = {}) => OnlyChangedReconverted

C4_Witness ==
    /\ pc = "done"
    /\ ExactlyOneChanged
    /\ ctx.prevFailed = {}
    /\ invoked = ctx.mutated
    /\ \E q \in Pngs \ ctx.mutated : fstate[q] = "Skipped"

\* the cache has an entry for p with the hash of its source, but the artifact
\* was not on disk when the run started
ArtifactDeleted(p) ==
    /\ ctx.started
    /\ p \in DOMAIN conversion_hashes
    /\ conversion_hashes[p].input_hash = SHA256(content[p])
    /\ ctx.artifact0[WebpFile(p)] = NoFile

\* C5: a file with a cache entry of matching input hash whose artifact was
\* deleted before the run is not skipped: encode is called, and on success the
\* artifact exists again and the new cache has a fresh entry for the file.
C5_DeletionRecovery ==
    \A p \in Pngs :
       (Running /\ ArtifactDeleted(p)) =>
          /\ fstate[p] # "Skipped"
          /\ fstate[p] \in {"waiting", "encoding", "Succeeded", "Failed"} =>
                p \in invoked
          /\ fstate[p] = "Succeeded" =>
                /\ artifact[WebpFile(p)] = Encode(content[p])
                /\ p \in DOMAIN new_hashes[Parent(p)]
                /\ new_hashes[Parent(p)][p].last_conversion = now
                /\ new_hashes[Parent(p)][p].input_hash = SHA256(content[p])
                /\ new_hashes[Parent(p)][p].output_hash =
                      SHA256(artifact[WebpFile(p)])
                /\ pc = "done" => /\ p \in SavedKeys
                                  /\ load_lock_file(lockFile).value[p] =
                                        new_hashes[Parent(p)][p]

C5_Witness ==
    \E p \in Pngs : /\ pc = "done"
                    /\ ArtifactDeleted(p)
                    /\ fstate[p] = "Succeeded"
                    /\ artifact[WebpFile(p)] # NoFile

Kept == {p \in Pngs : fstate[p] \in {"Skipped", "Succeeded"}}

\* C6: a file that ended Failed has no entry in any new map of the run, not
\* even the entry the loaded cache had for it, so the saved cache has no key
\* for it; and the run after it calls encode for it again.
C6_FailedHasNoEntry ==
    \A p \in Pngs :
       /\ fstate[p] = "Failed" =>
             /\ \A d \in Dirs : p \notin DOMAIN new_hashes[d]
             /\ pc = "done" => p \notin SavedKeys
       /\ (Running /\ ctx.afterCompleted /\ p \in ctx.prevFailed) =>
             /\ p \notin DOMAIN conversion_hashes
             /\ fstate[p] # "Skipped"
             /\ fstate[p] \in {"waiting", "encoding", "Succeeded", "Failed"} =>
                   p \in invoked

\* a saved run in which a file that failed in the run before was encoded
\* again, and a file that has an entry in the loaded cache failed
C6_Witness ==
    /\ pc = "done"
    /\ ctx.afterCompleted
    /\ \E p \in ctx.prevFailed : p \in invoked
    /\ \E q \in Pngs : /\ fstate[q] = "Failed"
                       /\ q \in DOMAIN conversion_hashes
                       /\ q \notin SavedKeys

\* a step of the running pipeline
ProgramStep ==
    \/ \E d \in Dirs : process_directory(d)
    \/ \E p \in Pngs : process_file(p)
    \/ \E p \in Pngs : convert_image_acquire(p)
    \/ \E p \in Pngs : convert_image_except(p)
    \/ \E p \in Pngs : convert_image_return(p)
    \/ \E d \in Dirs : process_directory_return(d)
    \/ save_lock_file_open
    \/ save_lock_file_dump

\* C7: an encode failure aborts nothing: the run is not ended by it, the
\* pipeline can always take a further step until it has saved, save starts
\* only when every file and directory has finished, and the entries of all
\* files that were Skipped or Succeeded are in the saved cache.
C7_FailureIsolated ==
    encodeErrors # {} =>
       /\ pc # "fatal"
       /\ \A p \in encodeErrors : fstate[p] = "Failed"
       /\ pc \in {"walk", "saving"} => ENABLED ProgramStep
       /\ pc \in {"saving", "done"} =>
             /\ \A p \in Pngs : fstate[p] \in Terminal
             /\ \A d \in Dirs : dstate[d] = "returned"
             /\ DOMAIN new_hashes[Root] = Kept
       /\ pc = "done" =>
             /\ SavedKeys = Kept
             /\ \A p \in Kept :
                   load_lock_file(lockFile).value[p] = new_hashes[Parent(p)][p]

\* a saved run in which a file of the root failed, its sibling file and the
\* file of the subdirectory were converted
C7_Witness ==
    /\ pc = "done"
    /\ tree = SmallTree
    /\ fstate[<<"a.png">>] = "Failed"
    /\ <<"a.png">> \in encodeErrors
    /\ fstate[<<"b.png">>] = "Succeeded"
    /\ fstate[<<"sub", "a.png">>] = "Succeeded"
    /\ SavedKeys = {<<"b.png">>, <<"sub", "a.png">>}

\* C8: when the process is killed during save_lock_file, the lock file on disk
\* is the complete previous document or the complete new one.
C8_AtomicSave ==
    pc = "crashed" =>
       \/ lockFile = ctx.lock0
       \/ lockFile = Json(OrganizedHashes(new_hashes[Root], now))

\* C9: load_lock_file of the document written by save_lock_file(M) is M, and
\* saving the loaded mapping again writes the same `files` content.
C9_RoundTrip ==
    /\ rt.stage \in {"loaded", "resaved"} => conversion_hashes = rt.M
    /\ rt.stage = "resaved" => FilesOf(lockFile) = FilesOf(rt.doc1)

\* a mapping of three entries in three folders went through the round trip
C9_Witness ==
    /\ rt.stage = "resaved"
    /\ DOMAIN rt.M = RTKeys
    /\ Cardinality(DOMAIN FilesOf(lockFile)) = 3
    /\ MetadataOf(lockFile).last_update # MetadataOf(rt.doc1).last_update

\* C10: an absent lock file gives the empty cache and the run goes on, every
\* file being converted; a malformed lock file ends the run with the error of
\* the load: no directory or file is processed and nothing is saved.
C10_AbsentVersusMalformed ==
    (ctx.started /\ pc # "idle") =>
       /\ ctx.lock0.kind = "absent" =>
             /\ pc # "fatal"
             /\ conversion_hashes = EmptyMap
             /\ \A p \in Pngs :
                   /\ fstate[p] # "Skipped"
                   /\ fstate[p] \notin {"none", "start"} => p \in invoked
       /\ ctx.lock0.kind = "malformed" =>
             /\ pc = "fatal"
             /\ \A d \in Dirs : dstate[d] = "none"
             /\ \A p \in Pngs : fstate[p] = "none"
             /\ invoked = {}
             /\ lockFile = ctx.lock0
       /\ pc = "fatal" => ctx.lock0.kind = "malformed"

\* a run that found a truncated lock file and stopped at the load
C10_Witness ==
    /\ pc = "fatal"
    /\ ctx.started
    /\ ctx.lock0 = Malformed
    /\ lockFile = Malformed

\* C11: two calls of load_lock_file / save_lock_file on the same path are
\* never inside their file-access critical sections at the same time.
C11_MutualExclusion ==
    \A c1, c2 \in Callers :
       c1 # c2 => ~(InCritical(c1) /\ InCritical(c2))

\* a unit of work that was dispatched and has not finished
InFlight(p) == fstate[p] \in {"start", "waiting", "encoding"}

\* C12: a process_directory call has not finished, with its mapping or with an
\* error, while a file or subdirectory it dispatched is still being worked
\* on; and save_lock_file has not started while a file is hashed or converted.
C12_StructuredJoin ==
    /\ \A d \in Dirs :
          dstate[d] \in {"returned", "raised"} =>
             /\ \A p \in Glob(d) : ~InFlight(p)
             /\ \A e \in Subdirs(d) : dstate[e] \in {"returned", "raised"}
    /\ pc \in {"saving", "done"} => \A p \in Pngs : ~InFlight(p)

\* C13: after the walk every directory of the input tree has its directory
\* under the output root, the artifact of every Succeeded file is <stem>.webp
\* in the output directory that mirrors the directory of the source file, and
\* no place that mirrors no source file holds an artifact.
C13_TreeMirroring ==
    pc \in {"saving", "done"} =>
       /\ \A d \in Dirs : d \in outdirs
       /\ \A p \in Pngs :
             fstate[p] = "Succeeded" =>
                artifact[Parent(p) \o <<WebpName(Stem(Name(p)))>>] = Encode(content[p])
       /\ \A w \in OutputFiles :
             (\A p \in Pngs : w # Parent(p) \o <<WebpName(Stem(Name(p)))>>) =>
                artifact[w] = NoFile

\* the tree of three depths was converted: one artifact in each directory
C13_Witness ==
    /\ pc = "done"
    /\ tree = DeepTree
    /\ \A p \in Pngs : fstate[p] = "Succeeded"
    /\ outdirs = {Root, <<"sub">>, <<"sub", "deep">>}
    /\ artifact[<<"sub", "deep", "a.webp">>] = Encode(content[<<"sub", "deep", "a.png">>])

\* C14: in a run the lock file is read once, when no directory or file has
\* been processed yet; the loaded map does not change during the walk; the
\* lock file is not written before the walk of the whole tree has ended; and
\* the write at the end leaves a document whose entries are those of the new
\* map and no others.
C14_CacheLifecycle ==
    [][/\ (pc # "walk" /\ pc' = "walk") =>
             /\ conversion_hashes' = load_lock_file(lockFile).value
             /\ \A d \in Dirs : dstate'[d] = "none"
             /\ \A p \in Pngs : fstate'[p] = "none"
       /\ pc \in {"walk", "saving"} => conversion_hashes' = conversion_hashes
       /\ (pc = "walk" /\ lockFile' # lockFile) =>
             /\ pc' = "saving"
             /\ \A d \in Dirs : dstate[d] = "returned"
             /\ \A p \in Pngs : fstate[p] \in Terminal
       /\ (pc = "walk" /\ pc' = "walk") => lockFile' = ctx.lock0
       /\ (pc = "saving" /\ pc' = "done") =>
             /\ lockFile'.kind = "json"
             /\ load_lock_file(lockFile').value = new_hashes[Root]
             /\ MetadataOf(lockFile').total_files = Cardinality(DOMAIN new_hashes[Root])
      ]_vars

\* a run has replaced a document: an entry of the loaded cache is not in the
\* saved one, another one was taken over from it
C14_Witness ==
    /\ pc = "done"
    /\ ctx.lock0.kind = "json"
    /\ conversion_hashes = load_lock_file(ctx.lock0).value
    /\ \E k \in DOMAIN conversion_hashes : k \notin SavedKeys
    /\ \E k \in DOMAIN conversion_hashes :
          k \in SavedKeys /\ load_lock_file(lockFile).value[k] = conversion_hashes[k]

\* C15: of every semaphore the free permits are its capacity less the
\* convert_image calls that are inside "async with semaphore": each call gives
\* its permit back once, however it ends; the count stays within 0..N; when
\* all calls have finished it is N; and a call waits only when no permit is free.
C15_PermitsReleased ==
    \A d \in Dirs :
       dstate[d] \in {"running", "returned"} =>
          /\ semaphore[d] \in 0..MAX_CONCURRENT_OPERATIONS
          /\ semaphore[d] = MAX_CONCURRENT_OPERATIONS -
                               Cardinality({p \in Glob(d) : fstate[p] = "encoding"})
          /\ (\A p \in Glob(d) : fstate[p] \in Terminal) =>
                semaphore[d] = MAX_CONCURRENT_OPERATIONS

\* six files of one directory: calls have ended in each of the three ways,
\* the sixth waited while the permits were all taken, and all permits are back
C15_Witness ==
    /\ tree = FullTree
    /\ pc = "done"
    /\ semaphore[Root] = MAX_CONCURRENT_OPERATIONS
    /\ fstate[<<"a.png">>] = "Succeeded"
    /\ fstate[<<"b.png">>] = "Failed" /\ artifact[<<"b.webp">>] = NoFile
    /\ fstate[<<"c.png">>] = "Failed" /\ artifact[<<"c.webp">>] = Encode(content[<<"c.png">>])
    /\ \A p \in Pngs : p \in invoked

\* the folder name the specification gives to the directory d
FolderName(d) == IF d = Root THEN <<"root">> ELSE d

\* C16: every entry of the new map has as `folder` the parent directory of
\* its source file relative to the input root, "root" for a file of the input
\* root itself, and the saved document groups the entry under that name.
C16_FolderField ==
    /\ \A d \in Dirs : \A k \in DOMAIN new_hashes[d] :
          new_hashes[d][k].folder = FolderName(Parent(k))
    /\ pc = "done" =>
          \A k \in DOMAIN new_hashes[Root] :
             /\ FolderName(Parent(k)) \in DOMAIN FilesOf(lockFile)
             /\ k \in DOMAIN FilesOf(lockFile)[FolderName(Parent(k))]

\* the entry process_file puts into the new map for a file it keeps
EntryOf(p) ==
    IF fstate[p] = "Skipped"
    THEN conversion_hashes[p]
    ELSE [input_hash |-> SHA256(content[p]),
          output_hash |-> SHA256(Encode(content[p])),
          folder |-> FolderStr(Parent(p)),
          original_name |-> Name(p),
          webp_name |-> Name(WebpFile(p)),
          last_conversion |-> now]

\* C17: the mapping a process_directory call returns has one entry, keyed by
\* relative path, for each Skipped or Succeeded file of its subtree and no
\* other key; so the top-level mapping has exactly the kept files of the
\* tree, whatever the order in which files and subdirectories finished, and
\* no key of the old cache whose source file is gone.
C17_ExactlyKeptFiles ==
    pc \in {"walk", "saving", "done"} =>
       \A d \in Dirs :
          dstate[d] = "returned" =>
             /\ DOMAIN new_hashes[d] = {p \in Kept : d \in Prefixes(Parent(p))}
             /\ \A p \in DOMAIN new_hashes[d] : new_hashes[d][p] = EntryOf(p)

\* a saved run over a tree from which a file was removed: the old cache has
\* the key of that file, the returned mapping has not; of the files kept one
\* was skipped and one converted, one of them in the subdirectory
C17_Witness ==
    /\ pc = "done"
    /\ \E k \in DOMAIN conversion_hashes : k \notin Pngs /\ k \notin DOMAIN new_hashes[Root]
    /\ \E p \in Pngs : fstate[p] = "Skipped"
    /\ \E p \in Pngs : fstate[p] = "Succeeded"
    /\ <<"sub", "a.png">> \in DOMAIN new_hashes[Root]

\* the run has ended with the save: every file is in one of the terminal
\* states, every process_directory call has returned, the cache is written
Finished ==
    /\ pc = "done"
    /\ \A p \in Pngs : fstate[p] \in Terminal
    /\ \A d \in Dirs : dstate[d] = "returned"
    /\ lockFile = Json(OrganizedHashes(new_hashes[Root], now))

C19_SchemaShim ==
    rt.stage = "loaded" =>
       /\ ~rt.raised
       /\ IF <<"files">> \in DOMAIN lockFile.data
          THEN LET files == lockFile.data[<<"files">>]
               IN /\ DOMAIN conversion_hashes =
                        UNION {DOMAIN files[folder] : folder \in DOMAIN files}
                  /\ \A folder \in DOMAIN files : \A k \in DOMAIN files[folder] :
                        conversion_hashes[k] = files[folder][k]
                  /\ <<"metadata">> \notin DOMAIN conversion_hashes
          ELSE conversion_hashes = lockFile.data

\* a flat document of three entries was loaded as it is
C19_Witness ==
    /\ rt.stage = "loaded"
    /\ <<"files">> \notin DOMAIN lockFile.data
    /\ DOMAIN lockFile.data = RTKeys
    /\ conversion_hashes = lockFile.data

\* the files whose hashing raised in process_file in this run
HashRaised ==
    {p \in Pngs : p \in unreadable /\ fstate[p] \notin {"none", "start", "Cancelled"}}

\* C20: when hashing a source file raises in process_file the run is not
\* carried on to the save: the error goes up through every enclosing
\* process_directory to async_main, save_lock_file is not called and the lock
\* file stays as it was when the run started.
C20_HashFailureNotIsolated ==
    (pc \in {"walk", "saving", "done", "error"} /\ HashRaised # {}) =>
       /\ pc \in {"walk", "error"}
       /\ lockFile = ctx.lock0
       /\ ~ENABLED save_lock_file_open
       /\ pc = "walk" =>
             ENABLED ((\E d \in Dirs : process_directory_raises(d)) \/ async_main_raises)
       /\ pc = "error" =>
             \E p \in HashRaised : \A d \in Prefixes(Parent(p)) : dstate[d] = "raised"

\* a run ended by the unreadable file of the subdirectory after a file of the
\* root had been converted; the lock file is the document of the run before
C20_Witness ==
    /\ pc = "error"
    /\ fstate[<<"sub", "a.png">>] = "Raised"
    /\ dstate[<<"sub">>] = "raised"
    /\ dstate[Root] = "raised"
    /\ ctx.lock0.kind = "json"
    /\ lockFile = ctx.lock0
    /\ \E q \in Pngs : /\ fstate[q] = "Succeeded"
                       /\ artifact[WebpFile(q)] # ctx.artifact0[WebpFile(q)]
                       /\ q \notin SavedKeys

====
